---- MODULE Spec2Model ----
(***************************************************************************)
(* Model of palo_rule_added_export.py: a single-shot export of the         *)
(* security rules found in a firewall's configuration log.                 *)
(*                                                                         *)
(* Strings the program inspects character by character are sequences of    *)
(* one-character strings (the duration token) or of text fragments (the    *)
(* log path, in which the marker is one fragment).  Times are seconds.     *)
(***************************************************************************)
EXTENDS Integers, Sequences, FiniteSets, TLC

\* ---------------------------------------------------------------- bounds
MaxEntries == 2
MaxPolls == 2

\* ------------------------------------------------------------- constants
SecondsPerHour == 3600
HoursPerDay == 24
DaysPerWeek == 7
DaysPerMonth == 30
Now == 3000000

marker == "rulebase security rules"
FIN == "FIN"

\* ------------------------------------------------------ parse_duration
Digits == {"0", "1", "2", "3", "4", "5", "6", "7", "8", "9"}
Units == {"h", "d", "w", "m"}
All == <<"a", "l", "l">>

DigitVal(c) ==
  CASE c = "0" -> 0 [] c = "1" -> 1 [] c = "2" -> 2 [] c = "3" -> 3
    [] c = "4" -> 4 [] c = "5" -> 5 [] c = "6" -> 6 [] c = "7" -> 7
    [] c = "8" -> 8 [] c = "9" -> 9

RECURSIVE DigitPrefixLen(_)
DigitPrefixLen(s) ==
  IF s = <<>> \/ Head(s) \notin Digits THEN 0 ELSE 1 + DigitPrefixLen(Tail(s))

RECURSIVE int(_)
int(ds) ==
  IF ds = <<>> THEN 0
  ELSE 10 * int(SubSeq(ds, 1, Len(ds) - 1)) + DigitVal(ds[Len(ds)])

\* re.match(r"(\d+)([hdwm])", s): anchored at the start only; <<>> is no match.
re_match(s) ==
  LET k == DigitPrefixLen(s)
  IN IF k >= 1 /\ Len(s) > k /\ s[k + 1] \in Units
     THEN <<SubSeq(s, 1, k), s[k + 1]>>
     ELSE <<>>

NoneDelta == [tag |-> "None", secs |-> 0]
ValueError == [tag |-> "ValueError", secs |-> 0]
timedelta(s) == [tag |-> "timedelta", secs |-> s]

parse_duration(duration) ==
  IF duration = All THEN NoneDelta
  ELSE LET m == re_match(duration)
       IN IF m = <<>> THEN ValueError
          ELSE LET value == int(m[1])
                   unit == m[2]
               IN CASE unit = "h" -> timedelta(value * SecondsPerHour)
                    [] unit = "d" -> timedelta(value * HoursPerDay * SecondsPerHour)
                    [] unit = "w" ->
                         timedelta(value * DaysPerWeek * HoursPerDay * SecondsPerHour)
                    [] unit = "m" ->
                         timedelta(value * DaysPerMonth * HoursPerDay * SecondsPerHour)

\* Python truthiness of the value bound to delta: None and timedelta(0) are false.
Truthy(delta) == delta.tag = "timedelta" /\ delta.secs # 0

\* --------------------------------------- extract_rule_name_from_path
\* A path is [present, text]; text is a sequence of fragments, " " is
\* whitespace.  The result <<>> stands for None.
RECURSIVE IndexOf(_, _)
IndexOf(s, x) ==
  IF s = <<>> THEN 0
  ELSE IF Head(s) = x THEN 1
  ELSE LET r == IndexOf(Tail(s), x) IN IF r = 0 THEN 0 ELSE r + 1

RECURSIVE lstrip(_)
lstrip(s) == IF s # <<>> /\ Head(s) = " " THEN lstrip(Tail(s)) ELSE s

RECURSIVE rstrip(_)
rstrip(s) ==
  IF s # <<>> /\ s[Len(s)] = " " THEN rstrip(SubSeq(s, 1, Len(s) - 1)) ELSE s

strip(s) == rstrip(lstrip(s))

extract_rule_name_from_path(path) ==
  IF ~path.present \/ path.text = <<>> \/ IndexOf(path.text, marker) = 0
  THEN <<>>
  ELSE strip(SubSeq(path.text, IndexOf(path.text, marker) + 1, Len(path.text)))

\* ------------------------------------------------- strptime / strftime
\* time_generated is [kind, secs]: "missing" (no element), "garbage" (text
\* the format rejects), "padded" / "unpadded" (accepted spellings of secs).
\* Variant: text the format rejects is read as the epoch instead of raising.
strptime_lenient(raw) == raw.kind # "missing"

strptime_ok(raw) == raw.kind \in {"padded", "unpadded"}
strptime(raw) == raw.secs
strftime(t) == [kind |-> "padded", secs |-> t]

\* ---------------------------------------------------------------- dict
\* A Python dict is a sequence of [k, v] in insertion order.
DictKeys(d) == {d[j].k : j \in 1..Len(d)}
DictHas(d, key) == key \in DictKeys(d)
DictGet(d, key) == d[CHOOSE j \in 1..Len(d) : d[j].k = key].v
DictSet(d, key, val) ==
  IF DictHas(d, key)
  THEN [j \in 1..Len(d) |-> IF d[j].k = key THEN [k |-> key, v |-> val] ELSE d[j]]
  ELSE Append(d, [k |-> key, v |-> val])

\* ------------------------------------------ correlator loop body (97-117)
CorrelateEntry(d, e, delta_, now_) ==
  LET rule_name == extract_rule_name_from_path(e.path)
  IN IF rule_name = <<>> THEN d
     ELSE IF ~strptime_ok(e.time_generated) THEN d
     ELSE LET t == strptime(e.time_generated)
          IN IF Truthy(delta_) /\ now_ - t > delta_.secs THEN d
             ELSE IF ~DictHas(d, rule_name) \/ t < DictGet(d, rule_name)
                  THEN DictSet(d, rule_name, t)
                  ELSE d

\* ------------------------------------------------- get_security_rules
\* A catalog entry is [name, source, action, log_start]: source is the list
\* of <member> texts, action and log_start are element texts ("" if absent).
RECURSIVE join(_)
join(vals) ==
  IF Len(vals) <= 1 THEN vals ELSE <<Head(vals), ", ">> \o join(Tail(vals))

members(e, tag) ==
  LET vals == SelectSeq(e[tag], LAMBDA m : m # "")
  IN IF vals # <<>> THEN join(vals) ELSE <<"any">>

text(e, tag, default) == IF e[tag] # "" THEN e[tag] ELSE default

RuleOf(e) ==
  [name |-> e.name,
   source |-> members(e, "source"),
   action |-> text(e, "action", ""),
   log_start |-> text(e, "log_start", "no")]

RECURSIVE get_security_rules(_)
get_security_rules(entries) ==
  IF entries = <<>> THEN <<>>
  ELSE LET last == entries[Len(entries)]
       IN DictSet(get_security_rules(SubSeq(entries, 1, Len(entries) - 1)),
                  last.name, RuleOf(last))

\* ------------------------------------------------- main: join (194-202)
RowOf(rule, modified_time) ==
  [modified_time |-> strftime(modified_time)] @@ rule

\* Variant: "break" instead of "continue" at a rule missing from the catalog.
RECURSIVE BuildFinalBreak(_, _)
BuildFinalBreak(added, details) ==
  IF added = <<>> THEN <<>>
  ELSE LET item == Head(added)
       IN IF ~DictHas(details, item.k) THEN <<>>
          ELSE <<RowOf(DictGet(details, item.k), item.v)>>
                 \o BuildFinalBreak(Tail(added), details)

RECURSIVE BuildFinal(_, _)
BuildFinal(added, details) ==
  IF added = <<>> THEN <<>>
  ELSE LET rest == BuildFinal(Tail(added), details)
           item == Head(added)
       IN IF ~DictHas(details, item.k) THEN rest
          ELSE <<RowOf(DictGet(details, item.k), item.v)>> \o rest

\* ------------------------------------------------------------- inputs
Tokens ==
  { All,
    <<"0", "h">>, <<"1", "h">>, <<"1", "d">>, <<"2", "w">>, <<"1", "m">>,
    <<"1", "h", "x">>,
    <<"h">>, <<>>, <<"x", "1", "h">>, <<"1", "2">>, <<"a", "l">> }
Formats == {"csv", "json", "both"}

PathOf(name) == [present |-> TRUE, text |-> <<"vsys vsys1 ", marker, " ">> \o name]
NoPath == [present |-> FALSE, text |-> <<>>]
NoMarkerPath == [present |-> TRUE, text |-> <<"vsys vsys1 address web">>]
BlankPath == [present |-> TRUE, text |-> <<"vsys vsys1 ", marker, " ", " ">>]

R1 == <<"R1">>
R2 == <<"R2", " ">>
R3 == <<"R3">>

At(age) == [kind |-> "padded", secs |-> Now - age]
AtUnpadded(age) == [kind |-> "unpadded", secs |-> Now - age]
NoTime == [kind |-> "missing", secs |-> 0]
BadTime == [kind |-> "garbage", secs |-> 0]

Entry(p, t, c) == [path |-> p, time_generated |-> t, cmd |-> c]

LogEntries ==
  { Entry(PathOf(R1), At(1), "add"),
    Entry(PathOf(R1), AtUnpadded(SecondsPerHour), "add"),
    Entry(PathOf(R1), At(SecondsPerHour + 1), "add"),
    Entry(PathOf(R1), BadTime, "add"),
    Entry(PathOf(R2), NoTime, "add"),
    Entry(PathOf(R2), At(SecondsPerHour), "add"),
    Entry(NoPath, At(1), "add"),
    Entry(NoMarkerPath, At(1), "add"),
    Entry(BlankPath, At(1), "add"),
    Entry(PathOf(R2), At(1), "edit") }

SeqsUpTo(S, n) == UNION {[1..k -> S] : k \in 0..n}

Payloads == SeqsUpTo(LogEntries, MaxEntries)
PartialPayloads == {<<>>, <<Entry(PathOf(R3), At(1), "add")>>}

CatalogEntry(n, src, act, ls) ==
  [name |-> n, source |-> src, action |-> act, log_start |-> ls]

Catalogs ==
  { <<CatalogEntry(R1, <<"10.0.0.1", "", "10.0.0.2">>, "allow", "yes")>>,
    <<CatalogEntry(R1, <<>>, "deny", ""),
      CatalogEntry(strip(R2), <<"web">>, "", "")>>,
    <<CatalogEntry(R3, <<>>, "allow", ""),
      CatalogEntry(R3, <<"dns">>, "deny", "")>> }

JobIds == {"", "17"}

\* -------------------------------------------------------------- state
VARIABLES
  pc,            \* position of the single thread of main()
  duration,      \* args.duration
  format,        \* args.format
  delta,         \* result of parse_duration
  job,           \* the remote job: "none", "ACT" or "FIN"
  job_id,        \* job id read from the submission response
  root,          \* last parsed job-status response
  now,           \* datetime.now(IST) taken after the poll loop
  idx,           \* position of the for loop over root's entries
  added_rules,   \* the RuleChangeIndex
  catalog_xml,   \* the catalog response, as received
  rule_details,  \* dict built by get_security_rules
  final,         \* list of export rows
  csv_file,      \* <<>> when absent, else <<content>>
  json_file,     \* <<>> when absent, else <<content>>
  error,         \* exception that ended the run, "" if none
  fin_body,      \* history: <<body>> of the first FIN status response
  trace          \* history: externally visible events, in order

vars ==
  <<pc, duration, format, delta, job, job_id, root, now, idx, added_rules,
    catalog_xml, rule_details, final, csv_file, json_file, error, fin_body,
    trace>>

NoRoot == [status |-> "", entries |-> <<>>]

Count(s, x) == Cardinality({j \in 1..Len(s) : s[j] = x})

\* Poll cycles beyond MaxPolls in one run of the loop are not recorded.
Log(e) ==
  IF e \in {"sleep", "status"} /\ Count(trace, "status") >= MaxPolls
     /\ trace[Len(trace)] \in {"sleep", "status"}
  THEN trace
  ELSE Append(trace, e)

Init ==
  /\ pc = "parse"
  /\ duration \in Tokens
  /\ format \in Formats
  /\ delta = NoneDelta
  /\ job = "none"
  /\ job_id = ""
  /\ root = NoRoot
  /\ now = 0
  /\ idx = 1
  /\ added_rules = <<>>
  /\ catalog_xml = <<>>
  /\ rule_details = <<>>
  /\ final = <<>>
  /\ csv_file = <<>>
  /\ json_file = <<>>
  /\ error = ""
  /\ fin_body = <<>>
  /\ trace = <<>>

\* main, 182: delta = parse_duration(args.duration)
ResolveDuration ==
  /\ pc = "parse"
  /\ delta' = parse_duration(duration)
  /\ IF delta'.tag = "ValueError"
     THEN pc' = "failed" /\ error' = "ValueError" /\ trace' = trace
     ELSE pc' = "submit" /\ error' = error /\ trace' = Log("resolve")
  /\ UNCHANGED <<duration, format, job, job_id, root, now, idx, added_rules,
                 catalog_xml, rule_details, final, csv_file, json_file, fin_body>>

\* fetch_config_log_add_events, 72-80: start the job, read its id
SubmitJob ==
  /\ pc = "submit"
  /\ trace' = Log("submit")
  /\ \E ok \in BOOLEAN :
       IF ~ok
       THEN pc' = "failed" /\ error' = "HTTPError" /\ UNCHANGED <<job, job_id>>
       ELSE \E id \in JobIds :
              /\ job_id' = id
              /\ IF id = ""
                 THEN pc' = "failed" /\ error' = "RuntimeError" /\ job' = job
                 ELSE pc' = "sleep" /\ error' = error /\ job' = "ACT"
  /\ UNCHANGED <<duration, format, delta, root, now, idx, added_rules,
                 catalog_xml, rule_details, final, csv_file, json_file, fin_body>>

\* the appliance finishes the job
JobFinish ==
  /\ job = "ACT"
  /\ job' = FIN
  /\ UNCHANGED <<error, pc, duration, format, delta, job_id, root, now, idx,
                 added_rules, catalog_xml, rule_details, final, csv_file,
                 json_file, fin_body, trace>>

\* 84: time.sleep(2)
Sleep ==
  /\ pc = "sleep"
  /\ pc' = "poll"
  /\ trace' = Log("sleep")
  /\ UNCHANGED <<error, duration, format, delta, job, job_id, root, now, idx,
                 added_rules, catalog_xml, rule_details, final, csv_file,
                 json_file, fin_body>>

\* Variant: the loop ends at any response that carries a status.
StatusPresent(body) == body.status # ""

StatusIsFin(body) == body.status = FIN

\* 85-95: one status request; on FIN leave the loop and take "now"
PollStatus ==
  /\ pc = "poll"
  /\ trace' = Log("status")
  /\ \E ok \in BOOLEAN :
       IF ~ok
       THEN /\ pc' = "failed"
            /\ error' = "HTTPError"
            /\ UNCHANGED <<root, now, idx, added_rules, fin_body>>
       ELSE \E body \in
                 IF job = FIN
                 THEN {[status |-> FIN, entries |-> p] : p \in Payloads}
                 ELSE {[status |-> job, entries |-> p] : p \in PartialPayloads} :
              /\ root' = body
              /\ error' = error
              /\ fin_body' =
                   IF body.status = FIN /\ fin_body = <<>> THEN <<body>> ELSE fin_body
              /\ IF StatusIsFin(body)
                 THEN /\ pc' = "correlate"
                      /\ now' = Now
                      /\ added_rules' = <<>>
                      /\ idx' = 1
                 ELSE pc' = "sleep" /\ UNCHANGED <<now, idx, added_rules>>
  /\ UNCHANGED <<duration, format, delta, job, job_id, catalog_xml,
                 rule_details, final, csv_file, json_file>>

\* 97-117: one iteration of the for loop
ProcessEntry ==
  /\ pc = "correlate"
  /\ idx <= Len(root.entries)
  /\ added_rules' = CorrelateEntry(added_rules, root.entries[idx], delta, now)
  /\ idx' = idx + 1
  /\ UNCHANGED <<error, pc, duration, format, delta, job, job_id, root, now,
                 catalog_xml, rule_details, final, csv_file, json_file,
                 fin_body, trace>>

\* 119: return added_rules
CorrelateDone ==
  /\ pc = "correlate"
  /\ idx > Len(root.entries)
  /\ pc' = "catalog"
  /\ UNCHANGED <<error, duration, format, delta, job, job_id, root, now, idx,
                 added_rules, catalog_xml, rule_details, final, csv_file,
                 json_file, fin_body, trace>>

\* Variant: a failed catalog request is sent again.
FetchCatalogRetry ==
  /\ pc = "catalog"
  /\ trace' = Log("catalog")
  /\ \E ok \in BOOLEAN :
       IF ~ok
       THEN pc' = "catalog" /\ error' = error
            /\ UNCHANGED <<catalog_xml, rule_details>>
       ELSE \E c \in Catalogs :
              /\ error' = error
              /\ catalog_xml' = c
              /\ rule_details' = get_security_rules(c)
              /\ pc' = "join"
  /\ UNCHANGED <<duration, format, delta, job, job_id, root, now, idx,
                 added_rules, final, csv_file, json_file, fin_body>>

\* main, 190-192: rule_details = get_security_rules(...)
FetchCatalog ==
  /\ pc = "catalog"
  /\ trace' = Log("catalog")
  /\ \E ok \in BOOLEAN :
       IF ~ok
       THEN pc' = "failed" /\ error' = "HTTPError"
            /\ UNCHANGED <<catalog_xml, rule_details>>
       ELSE \E c \in Catalogs :
              /\ error' = error
              /\ catalog_xml' = c
              /\ rule_details' = get_security_rules(c)
              /\ pc' = "join"
  /\ UNCHANGED <<duration, format, delta, job, job_id, root, now, idx,
                 added_rules, final, csv_file, json_file, fin_body>>

\* main, 194-204
Join ==
  /\ pc = "join"
  /\ final' = BuildFinal(added_rules, rule_details)
  /\ pc' = "write_csv"
  /\ trace' = Log("join")
  /\ UNCHANGED <<error, duration, format, delta, job, job_id, root, now, idx,
                 added_rules, catalog_xml, rule_details, csv_file, json_file,
                 fin_body>>

FieldOrder == <<"name", "source", "action", "log_start", "modified_time">>

\* Variant: the CSV branch without the "and final" test.
CsvSelectedAnyRows(fmt, rows) == fmt \in {"csv", "both"}

CsvSelected(fmt, rows) == fmt \in {"csv", "both"} /\ rows # <<>>
JsonSelected(fmt) == fmt \in {"json", "both"}

\* main, 209-213
WriteCsv ==
  /\ pc = "write_csv"
  /\ IF CsvSelected(format, final)
     THEN /\ csv_file' = <<[header |-> FieldOrder, rows |-> final]>>
          /\ trace' = Log("csv")
     ELSE UNCHANGED <<csv_file, trace>>
  /\ pc' = "write_json"
  /\ UNCHANGED <<error, duration, format, delta, job, job_id, root, now, idx,
                 added_rules, catalog_xml, rule_details, final, json_file,
                 fin_body>>

\* main, 215-219
WriteJson ==
  /\ pc = "write_json"
  /\ IF JsonSelected(format)
     THEN /\ json_file' = <<final>>
          /\ trace' = Log("json")
     ELSE UNCHANGED <<json_file, trace>>
  /\ pc' = "done"
  /\ UNCHANGED <<error, duration, format, delta, job, job_id, root, now, idx,
                 added_rules, catalog_xml, rule_details, final, csv_file,
                 fin_body>>

Tool ==
  \/ ResolveDuration
  \/ SubmitJob
  \/ Sleep
  \/ PollStatus
  \/ ProcessEntry
  \/ CorrelateDone
  \/ FetchCatalog
  \/ Join
  \/ WriteCsv
  \/ WriteJson

Next ==
  \/ ResolveDuration
  \/ SubmitJob
  \/ JobFinish
  \/ Sleep
  \/ PollStatus
  \/ ProcessEntry
  \/ CorrelateDone
  \/ FetchCatalog
  \/ Join
  \/ WriteCsv
  \/ WriteJson

Spec == Init /\ [][Next]_vars

\* A run whose arguments are drawn from a few tokens only.
InitFair ==
  /\ Init
  /\ duration \in {All, <<"1", "h">>, <<"h">>}
  /\ format = "both"

\* The process runs its next statement; the appliance finishes a started job.
FairSpec == InitFair /\ [][Next]_vars /\ WF_vars(Tool) /\ WF_vars(JobFinish)

\* =================================================================
\* Properties
\* =================================================================

\* lines 95-117 run over a whole list of entries
RECURSIVE Correlate(_, _, _)
Correlate(entries, delta_, now_) ==
  IF entries = <<>> THEN <<>>
  ELSE CorrelateEntry(Correlate(SubSeq(entries, 1, Len(entries) - 1), delta_, now_),
                      entries[Len(entries)], delta_, now_)

Processed == SubSeq(root.entries, 1, idx - 1)
Correlating == pc = "correlate"
Correlated == pc \in {"catalog", "join", "write_csv", "write_json", "done"}

\* The contract of the duration token: "all", or digits followed by one unit
\* and nothing else.
UnitSeconds(u) ==
  CASE u = "h" -> SecondsPerHour
    [] u = "d" -> HoursPerDay * SecondsPerHour
    [] u = "w" -> DaysPerWeek * HoursPerDay * SecondsPerHour
    [] u = "m" -> DaysPerMonth * HoursPerDay * SecondsPerHour

WellFormed(tok) ==
  /\ Len(tok) >= 2
  /\ \A j \in 1..(Len(tok) - 1) : tok[j] \in Digits
  /\ tok[Len(tok)] \in Units

ContractDuration(tok) ==
  IF tok = All THEN NoneDelta
  ELSE IF WellFormed(tok)
       THEN timedelta(int(SubSeq(tok, 1, Len(tok) - 1)) * UnitSeconds(tok[Len(tok)]))
       ELSE ValueError

ValidToken(tok) == tok = All \/ WellFormed(tok)

\* C1: once the duration is resolved, the result is the unbounded sentinel
\* for "all", n hours / n days / 7n days / 30n days for exactly <n><unit>,
\* and an invalid-format error for every other token, trailing characters
\* after a valid prefix included.
C1_ParseDurationContract ==
  pc # "parse" => delta = ContractDuration(duration)

\* What the claims call a qualifying entry.
NameOf(e) == extract_rule_name_from_path(e.path)
HasName(e) == NameOf(e) # <<>>
HasTime(e) == strptime_ok(e.time_generated)
TimeOf(e) == strptime(e.time_generated)
SpanGiven == duration # All
InWindow(e) == SpanGiven => now - TimeOf(e) <= delta.secs
Qualifies(e) == HasName(e) /\ HasTime(e) /\ InWindow(e)

\* C2: while the correlator runs, an entry with a valid name and a parseable
\* time is left out of the index when a span was given (any token but "all",
\* zero spans included) and its age is strictly greater than the span, and is
\* taken into account otherwise.
C2_WindowFilter ==
  (Correlating /\ idx <= Len(root.entries)) =>
    LET e == root.entries[idx]
        after == CorrelateEntry(added_rules, e, delta, now)
    IN (HasName(e) /\ HasTime(e)) =>
         IF SpanGiven /\ now - TimeOf(e) > delta.secs
         THEN after = added_rules
         ELSE DictHas(after, NameOf(e)) /\ DictGet(after, NameOf(e)) <= TimeOf(e)

Min(S) == CHOOSE x \in S : \A y \in S : x <= y
QualifyingTimes(n) ==
  {TimeOf(Processed[j]) : j \in {i \in 1..Len(Processed) :
                                   Qualifies(Processed[i]) /\ NameOf(Processed[i]) = n}}
SeenNames == {NameOf(Processed[j]) : j \in 1..Len(Processed)} \ {<<>>}

\* C3: after each entry is processed the index holds at most one timestamp
\* per rule name, a name is in it exactly when a qualifying entry for it has
\* been seen, and its timestamp is the minimum over those entries.
C3_IndexIsMinimum ==
  (Correlating \/ Correlated) =>
    /\ Cardinality(DictKeys(added_rules)) = Len(added_rules)
    /\ \A n \in SeenNames \cup DictKeys(added_rules) :
         /\ DictHas(added_rules, n) <=> QualifyingTimes(n) # {}
         /\ DictHas(added_rules, n) => DictGet(added_rules, n) = Min(QualifyingTimes(n))

\* The index the program would build from a list of entries.
IndexFrom(entries) == Correlate(entries, delta, now)

\* C9: every name in the index comes from a change-log entry that records an
\* ADD: entries of another kind neither put a name into the index nor lower
\* a recorded time, so the index is the one built from the ADD entries alone.
IsAdd(e) == e.cmd = "add"
C9_OnlyAddEvents ==
  (Correlating \/ Correlated) =>
    added_rules = IndexFrom(SelectSeq(Processed, IsAdd))

\* Entries the correlator has to skip: no path, no marker in the path, only
\* whitespace after the marker, no generation time, or a time the format
\* rejects.
AfterMarker(txt) == SubSeq(txt, IndexOf(txt, marker) + 1, Len(txt))
Malformed(e) ==
  \/ ~e.path.present
  \/ \A j \in 1..Len(e.path.text) : e.path.text[j] # marker
  \/ \A j \in 1..Len(AfterMarker(e.path.text)) : AfterMarker(e.path.text)[j] = " "
  \/ e.time_generated.kind \in {"missing", "garbage"}
WellFormedEntry(e) == ~Malformed(e)

\* C10: malformed entries are skipped without ending the run and without
\* effect on the others: the index equals the index built from the same
\* entries with the malformed ones removed; no exception arises inside the
\* loop, so a run that fails after the FIN response fails at the catalog
\* request.
C10_MalformedEntriesSkipped ==
  /\ (Correlating \/ Correlated) =>
       added_rules = IndexFrom(SelectSeq(Processed, WellFormedEntry))
  /\ Correlating => error = ""
  /\ (error # "" /\ fin_body # <<>>) => trace[Len(trace)] = "catalog"

C10_Witness ==
  /\ Correlated
  /\ Len(added_rules) = 1
  /\ Len(root.entries) = MaxEntries
  /\ \E j \in 1..Len(root.entries) : Malformed(root.entries[j])

Joined == pc \in {"write_csv", "write_json", "done"}
RowNames == {final[j].name : j \in 1..Len(final)}
CatalogFields == {"name", "source", "action", "log_start"}

\* C4: the exported rows are exactly one per rule name present in both the
\* index and the catalog; a row is the catalog's rule plus modified_time, the
\* index's timestamp of that name; the catalog is as it was fetched.
C4_JoinCorrectness ==
  Joined =>
    /\ RowNames = DictKeys(added_rules) \cap DictKeys(rule_details)
    /\ Len(final) = Cardinality(RowNames)
    /\ \A j \in 1..Len(final) :
         LET row == final[j]
             rule == DictGet(rule_details, row.name)
         IN /\ DOMAIN row = CatalogFields \cup {"modified_time"}
            /\ \A f \in CatalogFields : row[f] = rule[f]
            /\ strptime_ok(row.modified_time)
            /\ strptime(row.modified_time) = DictGet(added_rules, row.name)
    /\ rule_details = get_security_rules(catalog_xml)
    /\ \A j \in 1..Len(rule_details) : DOMAIN rule_details[j].v = CatalogFields

C4_Witness ==
  /\ Joined
  /\ Len(final) = 1
  /\ Len(added_rules) = 2
  /\ DictKeys(added_rules) \ DictKeys(rule_details) # {}

Events == {trace[j] : j \in 1..Len(trace)}
PastPolling == pc \in {"correlate", "catalog", "join", "write_csv", "write_json", "done"}

\* C5, in every state: a status request directly follows a sleep; the loop
\* is left, the catalog fetched and a file written only after a FIN status
\* response, and the payload being correlated is the body of the first one.
C5_PollerSafety ==
  /\ \A j \in 1..Len(trace) : trace[j] = "status" => (j > 1 /\ trace[j - 1] = "sleep")
  /\ PastPolling => (fin_body # <<>> /\ root = fin_body[1] /\ root.status = FIN)
  /\ ("catalog" \in Events \/ csv_file # <<>> \/ json_file # <<>>) => fin_body # <<>>
  /\ fin_body = <<>> => pc \in {"parse", "submit", "sleep", "poll", "failed"}

\* C5: the safety part always holds, and once the job is started the poller
\* leaves its loop, provided the appliance finishes the job.
C5_Poller ==
  /\ []C5_PollerSafety
  /\ (pc = "sleep") ~> (pc \notin {"sleep", "poll"})

C5_Witness ==
  /\ pc = "correlate"
  /\ Count(trace, "status") = MaxPolls
  /\ root.entries # <<>>

\* C6: a CSV file exists only for selector csv/both with at least one row,
\* a JSON file only for selector json/both; at the end of a run each exists
\* exactly under that condition, the JSON file holding all rows (the empty
\* array when there are none).
C6_OutputSelection ==
  /\ csv_file # <<>> =>
       format \in {"csv", "both"} /\ final # <<>> /\ csv_file[1].rows = final
  /\ json_file # <<>> => format \in {"json", "both"} /\ json_file[1] = final
  /\ pc = "done" =>
       /\ csv_file # <<>> <=> (format \in {"csv", "both"} /\ final # <<>>)
       /\ json_file # <<>> <=> format \in {"json", "both"}
       /\ (format = "csv" /\ final = <<>>) => (csv_file = <<>> /\ json_file = <<>>)

C6_Witness ==
  /\ pc = "done"
  /\ format = "csv"
  /\ final = <<>>
  /\ added_rules # <<>>

\* C7: an invalid duration token, a submission response without a job id or
\* a failed request ends the run in the failed state with no file written;
\* the invalid token fails before any request, the missing job id before any
\* status or catalog request.
C7_StructuralFailures ==
  /\ (pc # "parse" /\ ~ValidToken(duration)) =>
       (pc = "failed" /\ error = "ValueError")
  /\ error = "ValueError" => trace = <<>>
  /\ error = "RuntimeError" => trace = <<"resolve", "submit">>
  /\ (job_id = "" /\ "submit" \in Events /\ error # "HTTPError") =>
       error = "RuntimeError"
  /\ error # "" <=> pc = "failed"
  /\ pc = "failed" => (csv_file = <<>> /\ json_file = <<>>)

\* The part of C7 that does not depend on which tokens are invalid.
C7_FailuresWriteNothing ==
  /\ error = "ValueError" => trace = <<>>
  /\ error = "RuntimeError" => trace = <<"resolve", "submit">>
  /\ error # "" <=> pc = "failed"
  /\ pc = "failed" => (csv_file = <<>> /\ json_file = <<>>)

RECURSIVE Polls(_)
Polls(k) == IF k = 0 THEN <<>> ELSE <<"sleep", "status">> \o Polls(k - 1)

Pipeline(k, csv, json) ==
  <<"resolve", "submit">> \o Polls(k) \o <<"catalog", "join">>
    \o (IF csv THEN <<"csv">> ELSE <<>>) \o (IF json THEN <<"json">> ELSE <<>>)

IsPrefix(s, t) == Len(s) <= Len(t) /\ s = SubSeq(t, 1, Len(s))

\* C8: the visible events of a run always form a prefix of: duration
\* resolved, one submission, one or more sleep/status pairs, one catalog
\* request, the join, the CSV write, the JSON write; a completed run shows
\* the whole pipeline, and files exist only once the catalog has been read.
C8_LinearPipeline ==
  /\ \E k \in 1..MaxPolls, csv \in BOOLEAN, json \in BOOLEAN :
       IsPrefix(trace, Pipeline(k, csv, json))
  /\ pc = "done" =>
       \E k \in 1..MaxPolls :
         trace = Pipeline(k, csv_file # <<>>, json_file # <<>>)
  /\ (csv_file # <<>> \/ json_file # <<>>) =>
       ("catalog" \in Events /\ "join" \in Events /\ PastPolling)

C8_Witness ==
  /\ pc = "done"
  /\ trace = Pipeline(MaxPolls, TRUE, TRUE)

====
